---- MODULE Spec2Model ----
(***************************************************************************)
(* Course catalog service (app.py): a record store over one JSON file,     *)
(* a validator, and the Flask request handlers that call them.             *)
(*                                                                         *)
(* Text values (form values, record values) are sequences of characters,   *)
(* so that str.strip() is computed and not assumed.  A dict is the         *)
(* sequence of its <<key, value>> items in insertion order.  The backing   *)
(* file is a flag (does it exist) and its text, a sequence of JSON tokens. *)
(***************************************************************************)
EXTENDS Integers, Sequences, FiniteSets, TLC

VARIABLES
    file,      \* course_catalog.json: [exists, text]
    last,      \* the record store call that returned last (SpecStore)
    prev,      \* the record store call before it (SpecStore)
    vdata,     \* the dict handed to validate_course (SpecValidate)
    vres,      \* what validate_course returned for it (SpecValidate)
    session,   \* the Flask session: counter name -> value (Spec)
    resp,      \* the response of the last request (Spec)
    pc,        \* position of each concurrent save_courses call (SpecConc)
    loaded,    \* the list each concurrent call loaded (SpecConc)
    data,      \* the record each concurrent call appends (SpecConc)
    order      \* the file accesses of the concurrent calls, in order (SpecConc)

vars == <<file, last, prev, vdata, vres, session, resp, pc, loaded, data, order>>

-----------------------------------------------------------------------------
(* Bounds *)

\* longest catalog the model lets the store grow to when it is called directly
MaxCat == 3
\* longest catalog the model lets the requests of a client grow
MaxAdded == 2
\* most items of a dict handed to validate_course
MaxFields == 4
\* cap of every session counter
MaxCount == 2

-----------------------------------------------------------------------------
(* Text and dicts *)

\* the characters str.strip() removes
Whitespace == {" ", "\t", "\n"}

RECURSIVE lstrip(_)
lstrip(s) == IF s # <<>> /\ Head(s) \in Whitespace THEN lstrip(Tail(s)) ELSE s

RECURSIVE rstrip(_)
rstrip(s) ==
    IF s # <<>> /\ s[Len(s)] \in Whitespace
    THEN rstrip(SubSeq(s, 1, Len(s) - 1))
    ELSE s

\* str.strip()
strip(s) == rstrip(lstrip(s))

\* list(d): the keys of a dict in insertion order
keys(d) == [i \in 1..Len(d) |-> d[i][1]]

\* d.get(k, default)
get(d, k, default) ==
    IF \E i \in 1..Len(d) : d[i][1] = k
    THEN d[CHOOSE i \in 1..Len(d) : d[i][1] = k][2]
    ELSE default

\* str.capitalize() of the field names it is applied to
capitalize(field) ==
    CASE field = "code" -> "Code"
      [] field = "name" -> "Name"
      [] field = "instructor" -> "Instructor"

-----------------------------------------------------------------------------
(* The backing file and its JSON text *)

LBracket == [t |-> "[", v |-> <<>>]
RBracket == [t |-> "]", v |-> <<>>]
Obj(d) == [t |-> "obj", v |-> d]

\* json.dump(courses, file, indent=4): the array of the records, in order
JsonDump(cs) == <<LBracket>> \o [i \in 1..Len(cs) |-> Obj(cs[i])] \o <<RBracket>>

\* the texts json.load accepts; on every other text it raises JSONDecodeError
JsonWellFormed(text) ==
    /\ Len(text) >= 2
    /\ text[1] = LBracket
    /\ text[Len(text)] = RBracket
    /\ \A i \in 2..(Len(text) - 1) : text[i].t = "obj"

\* json.load(file) of a well-formed text
JsonLoad(text) == [i \in 1..(Len(text) - 2) |-> text[i + 1].v]

Absent == [exists |-> FALSE, text |-> <<>>]
\* a file that exists and holds no byte
ZeroByte == [exists |-> TRUE, text |-> <<>>]
\* a file cut short while it was written
Truncated == [exists |-> TRUE, text |-> <<LBracket>>]

\* the bytes a token takes in the file: its brackets and its values
RECURSIVE ValueBytes(_)
ValueBytes(d) == IF d = <<>> THEN 0 ELSE Len(Head(d)[2]) + ValueBytes(Tail(d))
TokenBytes(tok) ==
    IF tok.t = "obj" THEN 2 + ValueBytes(tok.v)
    ELSE IF tok.t = "tail" THEN Len(tok.v)
    ELSE 1
RECURSIVE Bytes(_)
Bytes(text) == IF text = <<>> THEN 0 ELSE TokenBytes(Head(text)) + Bytes(Tail(text))

\* the file opened for writing and not cut
OpenWithoutTruncate(f) == [exists |-> TRUE, text |-> f.text]
\* open(COURSE_FILE, 'w'): the file is created or cut to no byte
OpenForWrite(f) == [exists |-> TRUE, text |-> <<>>]

\* json.dump(courses, file, indent=4) and the close of the file: the text is
\* written from the start of the file, over what the file holds by then; what
\* the file holds past the end of the text stays, as a tail that is no JSON
DumpInto(f, cs) ==
    [exists |-> TRUE,
     text |-> IF Bytes(f.text) > Bytes(JsonDump(cs))
              THEN JsonDump(cs) \o
                   <<[t |-> "tail",
                      v |-> [i \in 1..(Bytes(f.text) - Bytes(JsonDump(cs))) |-> "?"]]>>
              ELSE JsonDump(cs)]

\* with open(COURSE_FILE, 'w') as file: json.dump(courses, file, indent=4),
\* with no other access to the file in between
WriteCourses(cs) == DumpInto(OpenForWrite(Absent), cs)

-----------------------------------------------------------------------------
(* What an operation leaves in the log file and in the trace *)

\* logger.<level>(json.dumps({"event": event, ...})): one line, with its keys
LogLine(level, event, attrs) == [level |-> level, event |-> event, attrs |-> attrs]

\* a finished span: its name, the attributes set on it and its status.  A span
\* left by an exception has status ERROR (start_as_current_span records it).
Span(name, attrs, status) == [name |-> name, attrs |-> attrs, status |-> status]

-----------------------------------------------------------------------------
(* Record store *)

\* c['code'] and the like, on a dict that has the key
item(d, k) == d[CHOOSE i \in 1..Len(d) : d[i][1] = k][2]

\* a load that opens the file without looking whether it exists
load_courses_unguarded(f) ==
    IF ~f.exists \/ ~JsonWellFormed(f.text)
    THEN [raised |-> TRUE, ret |-> <<>>, logs |-> <<>>,
          spans |-> <<Span("load-courses", {"operation", "http.url"}, "ERROR")>>]
    ELSE [raised |-> FALSE, ret |-> JsonLoad(f.text),
          logs |-> <<LogLine("INFO", "load-courses",
                             {"event", "http.url", "course.count", "load.time"})>>,
          spans |-> <<Span("load-courses",
                           {"operation", "http.url", "course.count", "load.time"},
                           "UNSET")>>]

\* load_courses(): [] when the file is absent, else json.load of the file,
\* which raises on a text that is not JSON
load_courses(f) ==
    IF ~f.exists
    THEN [raised |-> FALSE, ret |-> <<>>, logs |-> <<>>,
          spans |-> <<Span("load-courses",
                           {"operation", "http.url", "file.exists"}, "UNSET")>>]
    ELSE IF ~JsonWellFormed(f.text)
    THEN [raised |-> TRUE, ret |-> <<>>, logs |-> <<>>,
          spans |-> <<Span("load-courses", {"operation", "http.url"}, "ERROR")>>]
    ELSE [raised |-> FALSE, ret |-> JsonLoad(f.text),
          logs |-> <<LogLine("INFO", "load-courses",
                             {"event", "http.url", "course.count", "load.time"})>>,
          spans |-> <<Span("load-courses",
                           {"operation", "http.url", "course.count", "load.time"},
                           "UNSET")>>]

\* the new record put first / the loaded list dropped
prepended(cs, d) == <<d>> \o cs
replaced(cs, d) == <<d>>
\* courses.append(data)
appended(cs, d) == Append(cs, d)

\* a save that writes the file and leaves no log line of its own
save_courses_silent(f, d) ==
    LET l == load_courses(f) IN
    IF l.raised
    THEN [raised |-> TRUE, file |-> f, wrote |-> FALSE, logs |-> l.logs,
          spans |-> l.spans \o
                    <<Span("save-courses", {"operation", "http.url"}, "ERROR")>>]
    ELSE [raised |-> FALSE, file |-> WriteCourses(appended(l.ret, d)),
          wrote |-> TRUE, logs |-> l.logs,
          spans |-> l.spans \o
                    <<Span("save-courses",
                           {"operation", "http.url", "save.time"}, "UNSET")>>]

\* save_courses(data): load, append, rewrite the whole file
save_courses(f, d) ==
    LET l == load_courses(f) IN
    IF l.raised
    THEN [raised |-> TRUE, file |-> f, wrote |-> FALSE, logs |-> l.logs,
          spans |-> l.spans \o
                    <<Span("save-courses", {"operation", "http.url"}, "ERROR")>>]
    ELSE [raised |-> FALSE, file |-> WriteCourses(appended(l.ret, d)),
          wrote |-> TRUE,
          logs |-> l.logs \o
                   <<LogLine("INFO", "save-courses",
                             {"event", "http.url", "save.time"})>>,
          spans |-> l.spans \o
                    <<Span("save-courses",
                           {"operation", "http.url", "save.time"}, "UNSET")>>]

\* the first course of the list, whatever its code
first_course(cs, code) == IF cs = <<>> THEN <<>> ELSE <<cs[1]>>
\* next((c for c in courses if c['code'] == code), None): the first match in
\* a list of at most one element, empty for None
course_to_delete(cs, code) ==
    LET ms == SelectSeq(cs, LAMBDA c : item(c, "code") = code) IN
    IF ms = <<>> THEN <<>> ELSE <<ms[1]>>

\* only the first match removed
RECURSIVE remaining_but_first(_, _)
remaining_but_first(cs, code) ==
    IF cs = <<>> THEN <<>>
    ELSE IF item(Head(cs), "code") = code THEN Tail(cs)
    ELSE <<Head(cs)>> \o remaining_but_first(Tail(cs), code)
\* the filter keeping the matches
remaining_inverted(cs, code) == SelectSeq(cs, LAMBDA c : item(c, "code") = code)
\* [c for c in courses if c['code'] != code]
remaining(cs, code) == SelectSeq(cs, LAMBDA c : item(c, "code") # code)

\* delete_course_by_code(code): load; when a course has the code, rewrite the
\* file without the courses that have it and return True, else return False
delete_course_by_code(f, code) ==
    LET l == load_courses(f)
        m == course_to_delete(l.ret, code)
    IN
    IF l.raised
    THEN [raised |-> TRUE, ret |-> FALSE, file |-> f, wrote |-> FALSE,
          logs |-> l.logs,
          spans |-> l.spans \o
                    <<Span("delete-course-by-code",
                           {"operation", "http.url"}, "ERROR")>>]
    ELSE IF m # <<>> /\ Len(m[1]) > 0   \* "if course_to_delete:" - a dict with items
    THEN [raised |-> FALSE, ret |-> TRUE,
          file |-> WriteCourses(remaining(l.ret, code)), wrote |-> TRUE,
          logs |-> l.logs \o
                   <<LogLine("INFO", "course-deleted",
                             {"event", "course.code", "http.url", "delete.time"})>>,
          spans |-> l.spans \o
                    <<Span("delete-course-by-code",
                           {"operation", "http.url", "delete.time"}, "UNSET")>>]
    ELSE [raised |-> FALSE, ret |-> FALSE, file |-> f, wrote |-> FALSE,
          logs |-> l.logs \o
                   <<LogLine("WARNING", "course-delete-not-found",
                             {"event", "course.code", "http.url", "delete.time"})>>,
          spans |-> l.spans \o
                    <<Span("delete-course-by-code",
                           {"operation", "http.url", "delete.status",
                            "delete.time"}, "UNSET")>>]

-----------------------------------------------------------------------------
(* Validator *)

\* required_fields = ['code', 'name', 'instructor']
required_fields == <<"code", "name", "instructor">>

\* the required fields whose value is the empty string, nothing stripped
empty_fields_unstripped(d) ==
    SelectSeq(required_fields, LAMBDA f : get(d, f, <<>>) = <<>>)
\* [field for field in required_fields if not data.get(field, "").strip()]
empty_fields(d) ==
    SelectSeq(required_fields, LAMBDA f : strip(get(d, f, <<>>)) = <<>>)

\* the scan over a fixed list of fields, not over the fields of the dict
warning_fields_of_schema(d) ==
    SelectSeq(<<"code", "name", "instructor", "semester", "schedule">>,
              LAMBDA f : strip(get(d, f, <<>>)) = <<>>)
\* [field for field in data if not data.get(field, "").strip()]
warning_fields(d) ==
    SelectSeq(keys(d), LAMBDA f : strip(get(d, f, <<>>)) = <<>>)

\* validate_course(data): (False, "Error: ..."), ("warning", "Warning: ...")
\* or (True, "Validation successful").  A message is its fixed text and the
\* field names joined into it.
validate_course(d) ==
    IF empty_fields(d) # <<>>
    THEN [valid |-> "False",
          message |-> [text |-> "Error: Missing required fields - ",
                       fields |-> empty_fields(d)],
          logs |-> <<LogLine("ERROR", "validate-course-error",
                             {"event", "http.url", "missing_fields",
                              "validation.time"})>>,
          spans |-> <<Span("validate-course",
                           {"operation", "http.url", "validation.status",
                            "missing_fields", "validation.time"}, "UNSET")>>]
    ELSE IF warning_fields(d) # <<>>
    THEN [valid |-> "warning",
          message |-> [text |-> "Warning: Fields  are empty",
                       fields |-> warning_fields(d)],
          logs |-> <<LogLine("WARNING", "validate-course-warning",
                             {"event", "http.url", "warning_fields",
                              "validation.time"})>>,
          spans |-> <<Span("validate-course",
                           {"operation", "http.url", "validation.status",
                            "warning_fields", "validation.time"}, "UNSET")>>]
    ELSE [valid |-> "True",
          message |-> [text |-> "Validation successful", fields |-> <<>>],
          logs |-> <<LogLine("INFO", "validate-course-success",
                             {"event", "http.url", "validation.time"})>>,
          spans |-> <<Span("validate-course",
                           {"operation", "http.url", "validation.status",
                            "validation.time"}, "UNSET")>>]

-----------------------------------------------------------------------------
(* Forms and course records *)

\* the fields add_course reads from request.form, in the order it reads them
FormFields ==
    <<"code", "name", "instructor", "semester", "schedule", "classroom",
      "prerequisites", "grading", "description">>

FieldSet == {FormFields[i] : i \in 1..Len(FormFields)}

\* a submitted form: the four fields the model varies, the rest filled in
Form(c, n, i, s) ==
    [k \in FieldSet |->
        CASE k = "code" -> c
          [] k = "name" -> n
          [] k = "instructor" -> i
          [] k = "semester" -> s
          [] OTHER -> <<"x">>]

\* the forms a client submits: code, name and instructor filled in or blank,
\* and, with name and instructor filled in, the semester filled in or empty
Forms ==
    {Form(c, <<"N">>, <<"I">>, s) :
        c \in {<<>>, <<" ">>, <<"A">>, <<"B">>}, s \in {<<>>, <<"S">>}}
    \cup {Form(c, <<>>, <<"I">>, <<"S">>) : c \in {<<>>, <<"A">>}}
    \cup {Form(c, <<"N">>, <<"\t", " ">>, <<>>) : c \in {<<" ">>, <<"B">>}}

\* course = {'code': request.form['code'], ...}
course_of(form) ==
    [i \in 1..Len(FormFields) |-> <<FormFields[i], form[FormFields[i]]>>]

\* the records handed to the record store, and the codes asked of it
StoreRecords ==
    {course_of(Form(c, <<"N">>, <<"I">>, s)) :
        c \in {<<"A">>, <<"B">>}, s \in {<<>>, <<"S">>}}
StoreCodes == {<<"A">>, <<"B">>, <<"C">>}

\* the files the service may find when it starts
InitFiles == {Absent, ZeroByte, Truncated, WriteCourses(<<>>)}

\* the file can take one more record within the bound n
HasRoom(f, n) == Len(f.text) < n + 2

-----------------------------------------------------------------------------
(* Values of the variables a specification does not use *)

NoCall ==
    [op |-> "none", arg |-> <<>>, raised |-> FALSE, ret |-> <<>>,
     before |-> Absent, wrote |-> FALSE, logs |-> <<>>, spans |-> <<>>]
NoResult == [valid |-> "none", message |-> [text |-> "", fields |-> <<>>],
             logs |-> <<>>, spans |-> <<>>]
NoResp == [handler |-> "none"]
Procs == {1, 2}
IdleProcs ==
    /\ pc = [p \in Procs |-> "idle"]
    /\ loaded = [p \in Procs |-> <<>>]
    /\ data = [p \in Procs |-> <<>>]
    /\ order = <<>>

-----------------------------------------------------------------------------
(* SpecStore: the record store called directly, one call after the other *)

InitStore ==
    /\ file \in InitFiles
    /\ last = NoCall
    /\ prev = NoCall
    /\ vdata = <<>>
    /\ vres = NoResult
    /\ session = <<>>
    /\ resp = NoResp
    /\ IdleProcs

\* LoadAll()
LoadAll ==
    LET r == load_courses(file) IN
    /\ last' = [op |-> "load", arg |-> <<>>, raised |-> r.raised, ret |-> r.ret,
                before |-> file, wrote |-> FALSE, logs |-> r.logs,
                spans |-> r.spans]
    /\ prev' = last
    /\ UNCHANGED <<file, vdata, vres, session, resp, pc, loaded, data, order>>

\* Append(record)
AppendRecord ==
    \E d \in StoreRecords :
        LET r == save_courses(file, d) IN
        /\ HasRoom(file, MaxCat)
        /\ file' = r.file
        /\ last' = [op |-> "append", arg |-> d, raised |-> r.raised,
                    ret |-> <<>>, before |-> file, wrote |-> r.wrote,
                    logs |-> r.logs, spans |-> r.spans]
        /\ prev' = last
        /\ UNCHANGED <<vdata, vres, session, resp, pc, loaded, data, order>>

\* DeleteByCode(code)
DeleteByCode ==
    \E code \in StoreCodes :
        LET r == delete_course_by_code(file, code) IN
        /\ file' = r.file
        /\ last' = [op |-> "delete", arg |-> code, raised |-> r.raised,
                    ret |-> r.ret, before |-> file, wrote |-> r.wrote,
                    logs |-> r.logs, spans |-> r.spans]
        /\ prev' = last
        /\ UNCHANGED <<vdata, vres, session, resp, pc, loaded, data, order>>

NextStore == LoadAll \/ AppendRecord \/ DeleteByCode

SpecStore == InitStore /\ [][NextStore]_vars

-----------------------------------------------------------------------------
(* Record store contract, under SpecStore *)

\* the file holds a catalog: it is absent or its text is a JSON array
IsCatalog(f) == ~f.exists \/ JsonWellFormed(f.text)

\* the catalog a file holds
CatalogOf(f) == IF f.exists THEN JsonLoad(f.text) ELSE <<>>

\* the codes of the records of a catalog
CodesIn(cs) == {item(cs[i], "code") : i \in 1..Len(cs)}

\* the records of a catalog whose code is not `code`, in the catalog's order
Others(cs, code) == SelectSeq(cs, LAMBDA c : item(c, "code") # code)

\* C1: on every catalog, Append(r) followed by LoadAll() returns the catalog
\* as it was before the Append with r added as its last element, one longer.
C1_AppendThenLoad ==
    (last.op = "load" /\ prev.op = "append" /\ IsCatalog(prev.before)) =>
        /\ ~prev.raised
        /\ ~last.raised
        /\ Len(last.ret) = Len(CatalogOf(prev.before)) + 1
        /\ last.ret[Len(last.ret)] = prev.arg
        /\ SubSeq(last.ret, 1, Len(last.ret) - 1) = CatalogOf(prev.before)

C1_Witness ==
    /\ last.op = "load"
    /\ prev.op = "append"
    /\ Len(CatalogOf(prev.before)) = 2
    /\ last.ret = CatalogOf(prev.before) \o <<prev.arg>>

\* C2: DeleteByCode(code) on a catalog with no record of that code returns
\* false, does not write the file and leaves the file as it was.
C2_DeleteAbsent ==
    (/\ last.op = "delete"
     /\ IsCatalog(last.before)
     /\ last.arg \notin CodesIn(CatalogOf(last.before))) =>
        /\ ~last.raised
        /\ last.ret = FALSE
        /\ ~last.wrote
        /\ file = last.before

C2_Witness ==
    /\ last.op = "delete"
    /\ Len(CatalogOf(last.before)) >= 1
    /\ last.arg \notin CodesIn(CatalogOf(last.before))
    /\ last.ret = FALSE
    /\ file = last.before

\* C3: Append(r) followed by DeleteByCode(r.code) returns true and leaves no
\* record with that code (every duplicate goes), and the records with another
\* code stay, in their order.
C3_AppendThenDelete ==
    (/\ last.op = "delete"
     /\ prev.op = "append"
     /\ IsCatalog(prev.before)
     /\ last.arg = item(prev.arg, "code")) =>
        /\ ~prev.raised
        /\ ~last.raised
        /\ last.ret = TRUE
        /\ last.arg \notin CodesIn(CatalogOf(file))
        /\ CatalogOf(file) = Others(CatalogOf(prev.before), last.arg)

C3_Witness ==
    /\ last.op = "delete"
    /\ prev.op = "append"
    /\ last.arg = item(prev.arg, "code")
    /\ last.ret = TRUE
    /\ Len(CatalogOf(prev.before)) = 2
    /\ last.arg \in CodesIn(CatalogOf(prev.before))
    /\ Len(CatalogOf(file)) = 1

\* C4: two DeleteByCode calls in a row for a code the catalog holds: the first
\* returns true and the second false, however many records carried the code.
C4_DeleteTwice ==
    (/\ last.op = "delete"
     /\ prev.op = "delete"
     /\ last.arg = prev.arg
     /\ IsCatalog(prev.before)
     /\ prev.arg \in CodesIn(CatalogOf(prev.before))) =>
        /\ ~prev.raised /\ prev.ret = TRUE
        /\ ~last.raised /\ last.ret = FALSE

C4_Witness ==
    /\ last.op = "delete"
    /\ prev.op = "delete"
    /\ last.arg = prev.arg
    /\ Len(CatalogOf(prev.before)) - Len(Others(CatalogOf(prev.before), prev.arg)) >= 2
    /\ prev.ret = TRUE
    /\ last.ret = FALSE

\* C5 (as claimed): LoadAll() returns the empty sequence, raising nothing,
\* when the file is absent and when the file exists and is empty.
C5_LoadEmptyFile ==
    (last.op = "load" /\ (~last.before.exists \/ last.before = ZeroByte)) =>
        (~last.raised /\ last.ret = <<>>)

\* C5 (amended): LoadAll() returns the empty sequence, raising nothing, when
\* the file is absent and when it holds the empty JSON array; on a file that
\* exists and holds no byte it raises.
C5_LoadAbsentOrEmptyArray ==
    /\ (last.op = "load" /\ (~last.before.exists
                             \/ last.before = WriteCourses(<<>>))) =>
            (~last.raised /\ last.ret = <<>>)
    /\ (last.op = "load" /\ last.before = ZeroByte) => last.raised

C5_Witness ==
    /\ last.op = "load"
    /\ ~last.before.exists
    /\ ~last.raised
    /\ last.ret = <<>>

-----------------------------------------------------------------------------
(* SpecValidate: validate_course applied to a dict *)

\* the keys and the values of the dicts handed to validate_course
VKeys == {"code", "name", "instructor", "semester", "notes"}
VTexts == {<<>>, <<" ", "\t">>, <<" ", "x">>}

\* the sequences of n different keys
KeySeqs(n) ==
    {ks \in [1..n -> VKeys] : \A i, j \in 1..n : ks[i] = ks[j] => i = j}

\* the dict of the keys ks with the values vs
DictOf(ks, vs) == [i \in 1..Len(ks) |-> <<ks[i], vs[i]>>]

\* a dict of at most MaxFields items is handed to validate_course
InitValidate ==
    /\ \E n \in 0..MaxFields :
          \E ks \in KeySeqs(n) :
             \E vs \in [1..n -> VTexts] : vdata = DictOf(ks, vs)
    /\ vres = NoResult
    /\ file = Absent
    /\ last = NoCall
    /\ prev = NoCall
    /\ session = <<>>
    /\ resp = NoResp
    /\ IdleProcs

\* validate_course(data)
Validate ==
    /\ vres' = validate_course(vdata)
    /\ UNCHANGED <<vdata, file, last, prev, session, resp, pc, loaded, data, order>>

NextValidate == Validate

SpecValidate == InitValidate /\ [][NextValidate]_vars

-----------------------------------------------------------------------------
(* Validator contract, under SpecValidate *)

\* a text that is empty or holds white space only
Blank(s) == \A j \in 1..Len(s) : s[j] \in Whitespace

Required == {"code", "name", "instructor"}

\* the required fields a dict lacks or holds blank
MissingRequired(d) ==
    {f \in Required : \A i \in 1..Len(d) : d[i][1] = f => Blank(d[i][2])}

\* the fields a dict holds blank
BlankFields(d) == {d[i][1] : i \in {j \in 1..Len(d) : Blank(d[j][2])}}

\* a sequence lists exactly the elements of a set, each once
Lists(q, S) == {q[i] : i \in 1..Len(q)} = S /\ Len(q) = Cardinality(S)

\* C6: for a dict whose code, name and instructor are not blank,
\* validate_course returns success exactly when no field of the dict is
\* blank, and else a warning that lists exactly the blank fields of the dict.
C6_SuccessOrWarning ==
    (vres.valid # "none" /\ MissingRequired(vdata) = {}) =>
        /\ vres.valid = "True" <=> BlankFields(vdata) = {}
        /\ vres.valid # "True" =>
              /\ vres.valid = "warning"
              /\ vres.message.text = "Warning: Fields  are empty"
              /\ Lists(vres.message.fields, BlankFields(vdata))

C6_Witness ==
    /\ vres.valid = "warning"
    /\ MissingRequired(vdata) = {}
    /\ vres.message.fields = <<"notes">>

\* C7 (as claimed): for a dict that lacks code, name or instructor or holds
\* one of them blank, validate_course returns an error whose message lists
\* exactly the missing required fields, capitalized for display.
C7_ErrorListsCapitalized ==
    (vres.valid # "none" /\ MissingRequired(vdata) # {}) =>
        /\ vres.valid = "False"
        /\ Lists(vres.message.fields,
                 {capitalize(f) : f \in MissingRequired(vdata)})

\* C7 (amended): ... lists exactly the missing required fields, each by its
\* key as written in the code (lower case), in the order code, name,
\* instructor.
C7_ErrorListsKeys ==
    (vres.valid # "none" /\ MissingRequired(vdata) # {}) =>
        /\ vres.valid = "False"
        /\ vres.message.text = "Error: Missing required fields - "
        /\ Lists(vres.message.fields, MissingRequired(vdata))
        /\ vres.message.fields =
               SelectSeq(required_fields, LAMBDA f : f \in MissingRequired(vdata))

C7_Witness ==
    /\ vres.valid = "False"
    /\ "code" \notin {vdata[i][1] : i \in 1..Len(vdata)}
    /\ \E i \in 1..Len(vdata) : vdata[i][1] = "name" /\ vdata[i][2] # <<>>
    /\ vres.message.fields = <<"code", "name">>

-----------------------------------------------------------------------------
(* Request handlers *)

\* if key not in session: session[key] = 0
with_counter(sess, key) == IF key \in DOMAIN sess THEN sess ELSE (key :> 0) @@ sess

\* session[key] = session[key] + 1, through the handler's local copy
incremented(sess, key) == [sess EXCEPT ![key] = @ + 1]

\* flash(message, category): the message is its fixed text and the names
\* joined into it
Flash(category, text, fields) ==
    [category |-> category, text |-> text, fields |-> fields]

\* what a handler hands back: the page rendered or the redirect, the messages
\* flashed, the log lines and spans of the request, and the failure it met
\* ("none" when it met none).  kind "exception" is an exception that left
\* the handler.
Response(handler, method, kind, target, course, flash, error, logs, spans) ==
    [handler |-> handler, method |-> method, kind |-> kind, target |-> target,
     course |-> course, flash |-> flash, error |-> error, logs |-> logs,
     spans |-> spans]

ServerAttrs == {"http.method", "http.url", "user.ip"}
RequestLog == {"event", "http.method", "http.url", "user.ip"}

\* index(): GET /
index(f, sess) ==
    [file |-> f, session |-> sess,
     resp |-> Response("index", "GET", "render", "index.html", <<>>, <<>>, "none",
                       <<LogLine("INFO", "render-index",
                                 RequestLog \cup {"render.time"})>>,
                       <<Span("render-index",
                              ServerAttrs \cup {"render.time"}, "UNSET")>>)]

\* add_course(), GET: the empty form
add_course_get(f, sess) ==
    [file |-> f, session |-> sess,
     resp |-> Response("add_course", "GET", "render", "add_course.html", <<>>,
                       <<>>, "none", <<>>, <<>>)]

\* a test that lets only True through
not_valid_strict(valid) == valid # "True"
\* "if not valid": of False, "warning" and True only False is falsy
not_valid(valid) == valid = "False"

\* the pre-check with nothing stripped: only the empty string is caught
unfilled_fields_unstripped(course) ==
    SelectSeq(required_fields, LAMBDA k : get(course, k, <<>>) = <<>>)
\* [field for field in required_fields if not course.get(field).strip()],
\* the names before they are capitalized
unfilled_fields(course) ==
    SelectSeq(required_fields, LAMBDA k : strip(get(course, k, <<>>)) = <<>>)

\* add_course(), POST
add_course_post(f, sess, form) ==
    LET s0 == with_counter(with_counter(with_counter(with_counter(sess,
                  "missing_field_errors"), "validation_errors"),
                  "database_errors"), "added_courses_count")
        course == course_of(form)
        empty == unfilled_fields(course)
        shown == [i \in 1..Len(empty) |-> capitalize(empty[i])]
        v == validate_course(course)
        sv == save_courses(f, course)
    IN
    IF empty # <<>>
    THEN [file |-> f,
          session |-> incremented(s0, "missing_field_errors"),
          resp |-> Response("add_course", "POST", "render", "add_course.html",
                      course,
                      <<Flash("error", "The following fields are required and cannot be empty: .", shown)>>,
                      "missing_field", <<>>,
                      <<Span("add-course",
                             ServerAttrs \cup {"error.missing_fields"},
                             "UNSET")>>)]
    ELSE IF not_valid(v.valid)
    THEN [file |-> f,
          session |-> incremented(s0, "validation_errors"),
          resp |-> Response("add_course", "POST", "render", "add_course.html",
                      course,
                      <<Flash("error", "Validation error: ", v.message.fields)>>,
                      "validation_error",
                      v.logs \o <<LogLine("ERROR", "course-add-error",
                                          RequestLog \cup {"error.message"})>>,
                      v.spans \o
                      <<Span("add-course",
                             ServerAttrs \cup {"validation.time",
                                               "error.validation"},
                             "ERROR")>>)]
    ELSE IF sv.raised
    THEN [file |-> sv.file,
          session |-> incremented(s0, "database_errors"),
          resp |-> Response("add_course", "POST", "render", "add_course.html",
                      course,
                      <<Flash("error", "Failed to save course", <<>>)>>,
                      "store_failure",
                      v.logs \o sv.logs \o
                      <<LogLine("ERROR", "course-save-error",
                                RequestLog \cup {"error.message"})>>,
                      v.spans \o sv.spans \o
                      <<Span("add-course",
                             ServerAttrs \cup {"validation.time",
                                               "error.database"},
                             "ERROR")>>)]
    ELSE [file |-> sv.file,
          session |-> incremented(s0, "added_courses_count"),
          resp |-> Response("add_course", "POST", "redirect", "course_catalog",
                      course,
                      <<Flash("success", "Course added successfully", <<>>)>>,
                      "none",
                      v.logs \o sv.logs \o
                      <<LogLine("INFO", "course-added",
                                RequestLog \cup {"save.time"})>>,
                      v.spans \o sv.spans \o
                      <<Span("add-course",
                             ServerAttrs \cup {"validation.time", "save.time",
                                 "error.missing_fields", "error.validation",
                                 "error.database", "added_courses.count"},
                             "UNSET")>>)]

\* course_catalog(): GET|POST /catalog.  `kept` is whether the session written
\* before an exception still reaches the client (it does unless the server
\* propagates the exception, as it does in debug mode).
course_catalog(f, sess, kept) ==
    LET s1 == incremented(with_counter(sess, "catalog_page_access_count"),
                          "catalog_page_access_count")
        l == load_courses(f)
    IN
    IF l.raised
    THEN [file |-> f, session |-> IF kept THEN s1 ELSE sess,
          resp |-> Response("course_catalog", "GET", "exception", "", <<>>, <<>>,
                      "store_corrupt", l.logs,
                      l.spans \o
                      <<Span("render-course-catalog",
                             ServerAttrs \cup {"catalog.page_access_count"},
                             "ERROR")>>)]
    ELSE [file |-> f, session |-> s1,
          resp |-> Response("course_catalog", "GET", "render",
                      "course_catalog.html", <<>>, <<>>, "none",
                      l.logs \o
                      <<LogLine("INFO", "render-course-catalog",
                                RequestLog \cup {"course_loading.time",
                                                 "processing.time"})>>,
                      l.spans \o
                      <<Span("render-course-catalog",
                             ServerAttrs \cup {"catalog.page_access_count",
                                 "course_loading.time", "courses.count",
                                 "processing.time"},
                             "UNSET")>>)]

\* next((c for c in courses if c['code'] == code), None), as course_details
\* has it: the first match in a list of at most one element
find_course(cs, code) ==
    LET ms == SelectSeq(cs, LAMBDA c : item(c, "code") = code) IN
    IF ms = <<>> THEN <<>> ELSE <<ms[1]>>

\* course_details(code): GET /course/<code>
course_details(f, sess, code) ==
    LET l == load_courses(f)
        c == find_course(l.ret, code)
    IN
    IF l.raised
    THEN [file |-> f, session |-> sess,
          resp |-> Response("course_details", "GET", "exception", "", <<>>, <<>>,
                      "store_corrupt", l.logs,
                      l.spans \o
                      <<Span("course-details",
                             ServerAttrs \cup {"course.code"}, "ERROR")>>)]
    ELSE IF c = <<>>
    THEN [file |-> f, session |-> sess,
          resp |-> Response("course_details", "GET", "redirect",
                      "course_catalog", <<>>, <<>>, "not_found",
                      l.logs \o
                      <<LogLine("WARNING", "course-not-found",
                                {"event", "course.code", "http.method",
                                 "http.url"})>>,
                      l.spans \o
                      <<Span("course-details",
                             ServerAttrs \cup {"course.code",
                                               "course_loading.time"},
                             "UNSET")>>)]
    ELSE [file |-> f, session |-> sess,
          resp |-> Response("course_details", "GET", "render",
                      "course_details.html", c[1], <<>>, "none",
                      l.logs \o
                      <<LogLine("INFO", "course-details-viewed",
                                {"event", "course.code", "http.method",
                                 "http.url"})>>,
                      l.spans \o
                      <<Span("course-details",
                             ServerAttrs \cup {"course.code",
                                               "course_loading.time"},
                             "UNSET")>>)]

\* delete_course(code): POST /delete_course/<code>
delete_course(f, sess, code) ==
    LET r == delete_course_by_code(f, code) IN
    IF r.raised
    THEN [file |-> r.file, session |-> sess,
          resp |-> Response("delete_course", "POST", "exception", "", <<>>, <<>>,
                      "store_corrupt", r.logs,
                      r.spans \o
                      <<Span("delete-course",
                             ServerAttrs \cup {"course.code"}, "ERROR")>>)]
    ELSE IF r.ret
    THEN [file |-> r.file, session |-> sess,
          resp |-> Response("delete_course", "POST", "redirect",
                      "course_catalog", <<>>,
                      <<Flash("success", "Course with code  deleted successfully.",
                              <<code>>)>>,
                      "none",
                      r.logs \o
                      <<LogLine("INFO", "course-deleted",
                                RequestLog \cup {"course.code",
                                                 "course_deletion.time"})>>,
                      r.spans \o
                      <<Span("delete-course",
                             ServerAttrs \cup {"course.code",
                                 "course_deletion.time", "error.deletion"},
                             "UNSET")>>)]
    ELSE [file |-> r.file, session |-> sess,
          resp |-> Response("delete_course", "POST", "redirect",
                      "course_catalog", <<>>,
                      <<Flash("danger", "Course with code  not found.",
                              <<code>>)>>,
                      "not_found",
                      r.logs \o
                      <<LogLine("WARNING", "course-deletion-failed",
                                RequestLog \cup {"course.code"})>>,
                      r.spans \o
                      <<Span("delete-course",
                             ServerAttrs \cup {"course.code",
                                 "course_deletion.time", "error.deletion"},
                             "UNSET")>>)]

-----------------------------------------------------------------------------
(* Spec: the requests of one client, one after the other *)

Init ==
    /\ file \in InitFiles
    /\ session = <<>>
    /\ resp = NoResp
    /\ last = NoCall
    /\ prev = NoCall
    /\ vdata = <<>>
    /\ vres = NoResult
    /\ IdleProcs

\* no session counter is past the model's cap
Capped(sess) == \A k \in DOMAIN sess : sess[k] <= MaxCount

\* the request is served: its effect on the file, the session and the response
Served(r) ==
    /\ Capped(r.session)
    /\ r.file = file \/ HasRoom(file, MaxAdded)
    /\ file' = r.file
    /\ session' = r.session
    /\ resp' = r.resp
    /\ UNCHANGED <<last, prev, vdata, vres, pc, loaded, data, order>>

Index == Served(index(file, session))

AddCourseGet == Served(add_course_get(file, session))

AddCoursePost == \E form \in Forms : Served(add_course_post(file, session, form))

CourseCatalog == \E kept \in BOOLEAN : Served(course_catalog(file, session, kept))

CourseDetails == \E code \in StoreCodes : Served(course_details(file, session, code))

DeleteCourse == \E code \in StoreCodes : Served(delete_course(file, session, code))

Next ==
    \/ Index
    \/ AddCourseGet
    \/ AddCoursePost
    \/ CourseCatalog
    \/ CourseDetails
    \/ DeleteCourse

Spec == Init /\ [][Next]_vars

-----------------------------------------------------------------------------
(* Request handler claims, under Spec *)

\* the step is a submitted add request (POST add_course) being served
AddPosted == resp'.handler = "add_course" /\ resp'.method = "POST"

\* the step appends the submitted record to the catalog, once
Persisted ==
    /\ IsCatalog(file)
    /\ file' = WriteCourses(CatalogOf(file) \o <<resp'.course>>)

\* C8 (as claimed): a submitted add request appends the record to the catalog
\* if and only if its validation outcome is not Error (no required field is
\* blank); a record with only optional fields blank is persisted, once.
C8_PersistedIffNotError ==
    [][AddPosted =>
          /\ Persisted <=> MissingRequired(resp'.course) = {}
          /\ ~Persisted => file' = file]_vars

\* C8 (amended): ... if and only if its validation outcome is not Error and
\* save_courses raises nothing (the file is absent or holds a JSON array);
\* in every other case the file is left as it was.
C8_PersistedIffNotErrorAndStored ==
    [][AddPosted =>
          /\ Persisted <=> (MissingRequired(resp'.course) = {} /\ IsCatalog(file))
          /\ ~Persisted => file' = file]_vars

\* a form with only an optional field blank was submitted and its record is
\* the last of the catalog
C8_Witness ==
    /\ resp.handler = "add_course"
    /\ resp.method = "POST"
    /\ BlankFields(resp.course) = {"semester"}
    /\ resp.kind = "redirect"
    /\ IsCatalog(file)
    /\ Len(CatalogOf(file)) = 2
    /\ CatalogOf(file)[2] = resp.course

\* C10: no request ends in an exception leaving its handler, and every
\* request that met a failure (missing required field, validation error,
\* store failure, corrupt store file, code not found) ends in a rendered page
\* or a redirect with a message flashed.
C10_NoErrorFatal ==
    resp.handler # "none" =>
        /\ resp.kind \in {"render", "redirect"}
        /\ resp.error # "none" => resp.flash # <<>>

-----------------------------------------------------------------------------
(* SpecConc: two save_courses calls in two request threads.  A call reads    *)
(* the file (load_courses), opens it for writing, and dumps its list; the    *)
(* other call may run between any two of these.                              *)

\* the files the two calls may find
ConcFiles == InitFiles \cup {WriteCourses(<<d>>) : d \in StoreRecords}

InitConc ==
    /\ file \in ConcFiles
    /\ pc = [p \in Procs |-> "start"]
    /\ loaded = [p \in Procs |-> <<>>]
    /\ data \in [Procs -> StoreRecords]
    /\ order = <<>>
    /\ last = NoCall
    /\ prev = NoCall
    /\ vdata = <<>>
    /\ vres = NoResult
    /\ session = <<>>
    /\ resp = NoResp

\* courses = load_courses()
SaveLoad(p) ==
    LET l == load_courses(file) IN
    /\ pc[p] = "start"
    /\ pc' = [pc EXCEPT ![p] = IF l.raised THEN "raised" ELSE "loaded"]
    /\ loaded' = [loaded EXCEPT ![p] = l.ret]
    /\ order' = Append(order, <<p, "load">>)
    /\ UNCHANGED <<file, data, last, prev, vdata, vres, session, resp>>

\* with open(COURSE_FILE, 'w') as file:
SaveOpen(p) ==
    /\ pc[p] = "loaded"
    /\ file' = OpenForWrite(file)
    /\ pc' = [pc EXCEPT ![p] = "opened"]
    /\ order' = Append(order, <<p, "open">>)
    /\ UNCHANGED <<loaded, data, last, prev, vdata, vres, session, resp>>

\* courses.append(data); json.dump(courses, file, indent=4)
SaveDump(p) ==
    /\ pc[p] = "opened"
    /\ file' = DumpInto(file, appended(loaded[p], data[p]))
    /\ pc' = [pc EXCEPT ![p] = "done"]
    /\ order' = Append(order, <<p, "dump">>)
    /\ UNCHANGED <<loaded, data, last, prev, vdata, vres, session, resp>>

NextConc == \E p \in Procs : SaveLoad(p) \/ SaveOpen(p) \/ SaveDump(p)

SpecConc == InitConc /\ [][NextConc]_vars

-----------------------------------------------------------------------------
(* Concurrent appends, under SpecConc *)

\* both calls loaded before either opened the file for writing
LoadsFirst ==
    /\ Len(order) = 6
    /\ order[1][2] = "load"
    /\ order[2][2] = "load"

\* the call that dumped last, and the other one
LaterWriter == order[6][1]
EarlierWriter == CHOOSE p \in Procs : p # LaterWriter

\* the two rewrites overlap: both calls opened the file before either dumped
Overlapped == order[3][2] = "open" /\ order[4][2] = "open"

\* the file holds what the later writer dumped: the catalog it loaded and its
\* own record
LastWriterWins ==
    /\ IsCatalog(file)
    /\ CatalogOf(file) = loaded[LaterWriter] \o <<data[LaterWriter]>>
    /\ Len(CatalogOf(file)) = Len(loaded[EarlierWriter]) + 1

\* C9 (as claimed): when two Append calls interleave, both loading before
\* either rewrites, both complete without error and the file ends as the
\* catalog they loaded with the later writer's record alone added.
C9_LostUpdate ==
    LoadsFirst =>
        /\ \A p \in Procs : pc[p] = "done"
        /\ loaded[1] = loaded[2]
        /\ LastWriterWins

\* C9 (amended): ... both loading before either rewrites and the rewrites not
\* overlapping, both complete without error and the file ends as the catalog
\* they loaded with the later writer's record alone added.  When the rewrites
\* overlap, the later dump lands on the earlier one: the file ends the same
\* way unless the earlier dump is longer, and then it is no JSON.
C9_LostUpdateUnlessOverlap ==
    LoadsFirst =>
        /\ \A p \in Procs : pc[p] = "done"
        /\ loaded[1] = loaded[2]
        /\ ~Overlapped => LastWriterWins
        /\ Overlapped =>
              IF Bytes(<<Obj(data[EarlierWriter])>>) > Bytes(<<Obj(data[LaterWriter])>>)
              THEN ~IsCatalog(file)
              ELSE LastWriterWins

C9_Witness ==
    /\ LoadsFirst
    /\ ~Overlapped
    /\ data[1] # data[2]
    /\ Len(loaded[1]) = 1
    /\ LaterWriter = 2
    /\ CatalogOf(file) = loaded[1] \o <<data[2]>>

-----------------------------------------------------------------------------
(* Trace events of the record store, under SpecStore *)

\* the span a record store operation opens for itself
OwnSpanName(op) ==
    CASE op = "load" -> "load-courses"
      [] op = "append" -> "save-courses"
      [] op = "delete" -> "delete-course-by-code"

\* the events a record store operation logs for itself
OwnEvents(op) ==
    CASE op = "load" -> {"load-courses"}
      [] op = "append" -> {"save-courses"}
      [] op = "delete" -> {"course-deleted", "course-delete-not-found"}

\* the spans and the log lines of its own that the last call left
OwnSpans == SelectSeq(last.spans, LAMBDA sp : sp.name = OwnSpanName(last.op))
OwnLogs == SelectSeq(last.logs, LAMBDA ln : ln.event \in OwnEvents(last.op))

\* the attributes that hold a duration, and those that hold a count
TimeAttrs == {"load.time", "save.time", "delete.time"}
CountAttrs == {"course.count"}

\* the span names its operation, counts the records and holds the duration
FullSpan(sp) ==
    /\ "operation" \in sp.attrs
    /\ sp.attrs \cap CountAttrs # {}
    /\ sp.attrs \cap TimeAttrs # {}

\* the log line names its event, counts the records and holds the duration
FullLine(ln) ==
    /\ "event" \in ln.attrs
    /\ ln.attrs \cap CountAttrs # {}
    /\ ln.attrs \cap TimeAttrs # {}

\* the call ran to its end having read or written the file
RanThrough == ~last.raised /\ ~(last.op = "load" /\ ~last.before.exists)

\* C11 (as claimed): every call of a record store operation emits exactly
\* one trace event of its own (a span, or the log line that mirrors it) that
\* carries the operation name, the record count and the duration, on every
\* path through the operation.
C11_OneFullTraceEvent ==
    last.op # "none" =>
        \/ Len(OwnSpans) = 1 /\ FullSpan(OwnSpans[1])
        \/ Len(OwnLogs) = 1 /\ FullLine(OwnLogs[1])

\* C11 (amended): every call ends exactly one span of its own that carries
\* the operation name, on every path.  The duration is on that span, and one
\* log line of its own with the duration is written, exactly when the call
\* runs to its end having read or written the file: not when it raises and
\* not when load_courses finds no file.  The record count is carried by
\* load_courses alone, when it has read the file.
C11_OneSpanAndLineWhenRanThrough ==
    last.op # "none" =>
        /\ Len(OwnSpans) = 1
        /\ "operation" \in OwnSpans[1].attrs
        /\ OwnSpans[1].attrs \cap TimeAttrs # {} <=> RanThrough
        /\ Len(OwnLogs) = (IF RanThrough THEN 1 ELSE 0)
        /\ \A i \in 1..Len(OwnLogs) :
              /\ "event" \in OwnLogs[i].attrs
              /\ OwnLogs[i].attrs \cap TimeAttrs # {}
              /\ OwnLogs[i].attrs \cap CountAttrs # {} <=> last.op = "load"
        /\ OwnSpans[1].attrs \cap CountAttrs # {} <=>
              (last.op = "load" /\ RanThrough)

C11_Witness ==
    /\ last.op = "append"
    /\ ~last.raised
    /\ ~last.before.exists
    /\ Len(last.logs) = 1
    /\ Len(OwnLogs) = 1
    /\ OwnLogs[1].attrs \cap CountAttrs = {}

-----------------------------------------------------------------------------
(* Add requests and the session counters, under Spec *)

\* the span add_course opens for the request
OuterSpan(r) == r.spans[Len(r.spans)]

\* the log lines add_course writes itself
HandlerEvents == {"course-add-error", "course-save-error", "course-added"}
HandlerLogs(r) == SelectSeq(r.logs, LAMBDA ln : ln.event \in HandlerEvents)

ErrorCounterAttrs == {"error.missing_fields", "error.validation", "error.database"}

\* C12: every add request that fails (missing required field, validation
\* error, store failure) sets the status of the request's span to an error,
\* puts an error counter on that span, and logs an error or warning line of
\* its own and never the course-added line.
C12_FailedAddMarksError ==
    (resp.handler = "add_course" /\ resp.method = "POST" /\ resp.error # "none") =>
        /\ OuterSpan(resp).name = "add-course"
        /\ OuterSpan(resp).status = "ERROR"
        /\ OuterSpan(resp).attrs \cap ErrorCounterAttrs # {}
        /\ \E i \in 1..Len(HandlerLogs(resp)) :
              HandlerLogs(resp)[i].level \in {"ERROR", "WARNING"}
        /\ \A i \in 1..Len(resp.logs) : resp.logs[i].event # "course-added"

\* the value of a session counter, 0 while the session does not hold it
Counter(sess, key) == IF key \in DOMAIN sess THEN sess[key] ELSE 0

AddCounters == {"missing_field_errors", "database_errors", "added_courses_count"}

\* C13: over any sequence of add requests the validation-error counter stays
\* 0: every form validate_course would refuse is turned back by the
\* handler's own pre-check, before validate_course is called; each add
\* request raises exactly one of the missing-field, database-error and
\* added-course counters, by 1, and no other counter.
C13_ValidationCounterNeverMoves ==
    [][AddPosted =>
          /\ Counter(session', "validation_errors") = 0
          /\ validate_course(resp'.course).valid = "False" =>
                /\ resp'.error = "missing_field"
                /\ \A i \in 1..Len(resp'.spans) :
                      resp'.spans[i].name # "validate-course"
          /\ resp'.error # "validation_error"
          /\ \E k \in AddCounters :
                /\ Counter(session', k) = Counter(session, k) + 1
                /\ \A j \in (AddCounters \cup {"validation_errors",
                                               "catalog_page_access_count"}) \ {k} :
                      Counter(session', j) = Counter(session, j)]_vars

C13_Witness ==
    /\ resp.handler = "add_course"
    /\ resp.method = "POST"
    /\ resp.error = "missing_field"
    /\ strip(item(resp.course, "code")) = <<>>
    /\ item(resp.course, "code") # <<>>
    /\ Counter(session, "missing_field_errors") = 2
    /\ Counter(session, "added_courses_count") = 1
    /\ Counter(session, "validation_errors") = 0

====
